---- MODULE Spec2Model ----
(***************************************************************************)
(* A model of pieces of the daemon and its client:                         *)
(*                                                                         *)
(*  - the migration session of cmd/incusd/migrate.go: the connection set   *)
(*    (conns), the control-stream lock (controlLock), the operations send, *)
(*    sendControl and disconnect run by concurrent goroutines, and the     *)
(*    Connect handlers of the source and of the sink session;              *)
(*                                                                         *)
(*  - its readers (recv, controlChannel), its Metadata, and the            *)
(*    negotiation of a migration type between the two sides' offers        *)
(*    (Driver.MigrationTypes);                                             *)
(*                                                                         *)
(*  - the publish command (cmdPublish.Run): a sequential program that      *)
(*    talks to an instance server, stops and restarts the instance and     *)
(*    creates, copies and deletes images.                                  *)
(***************************************************************************)
EXTENDS Integers, Sequences, FiniteSets, TLC

\* ------------------------------------------------------------------ bounds

\* Number of goroutines that call send, sendControl and disconnect.
NumProcs == 2

\* Longest secret, in characters.
MaxSecretLen == 2

\* Longest list of migration types a side offers.
MaxTypes == 3

\* ------------------------------------------------------- program constants

StatusBadRequest == 400
StatusForbidden == 403
StatusNotFound == 404

\* ------------------------------------------------------------ session data

Procs == 1..NumProcs

\* api.SecretNameControl and one content stream.
SecretNameControl == "control"
Names == {SecretNameControl, "fs"}

Alphabet == {"a", "b"}

\* Strings over Alphabet of length at most MaxSecretLen; <<>> is "".
Secrets == UNION {[1..k -> Alphabet] : k \in 0..MaxSecretLen}

ConnStates == {"pending", "established", "closed"}

NoResp == [kind |-> "none"]

\* No channel made, Metadata not called, no negotiation run.
NoChan == [made |-> FALSE, recvs |-> 0, sent |-> <<>>]
NoMeta == [kind |-> "none"]
NoNeg == [kind |-> "none"]

VARIABLES
    role,          \* "source" (migrationSourceWs) or "sink" (migrationSink)
    conns,         \* migrationFields.conns: name -> [secret, state]
    controlLock,   \* migrationFields.controlLock: 0 when free, else the holder
    pc,            \* position of each goroutine
    call,          \* the top-level call each goroutine is running
    todo,          \* entries the goroutine's close loop has still to visit
    ret,           \* what the goroutine's last finished call returned
    resp,          \* what Connect answered to the last connection request
    pub,           \* the publish command: program position, locals, server state
    io,            \* the frames each goroutine's current call wrote or read
    ch,            \* the channel controlChannel returned, per background reader
    meta,          \* what Metadata returned last
    neg            \* a type negotiation: the two offers and the outcome

sessionVars == <<role, conns, controlLock, pc, call, todo, ret, resp,
                 io, ch, meta, neg>>
vars == <<role, conns, controlLock, pc, call, todo, ret, resp, pub,
          io, ch, meta, neg>>

\* ------------------------------------------------------- the connection

\* migrationConn.Secret: the secret the entry was created with.
Secret(c, n) == c[n].secret

\* migrationConn.WebSocket: the stream of an established entry; an error (no
\* stream) while the entry is pending or once it is closed.
WebSocket(c, n) == c[n].state = "established"

\* migrationConn.AcceptIncoming: a pending entry whose request upgrades becomes
\* established; an entry that is not pending, or a failed upgrade, is an error
\* and leaves the entry as it was.
AcceptIncomingOk(c, n, upgraded) == c[n].state = "pending" /\ upgraded

AcceptIncoming(c, n, upgraded) ==
    IF AcceptIncomingOk(c, n, upgraded)
    THEN [c EXCEPT ![n].state = "established"]
    ELSE c

\* migrationConn.Close: force-closes the entry whatever its state; returns
\* nothing.
Close(c, n) == [c EXCEPT ![n].state = "closed"]

\* ---------------------------------------------------------------- Connect

\* The orders in which a range over the conns map may visit its entries.
Orders == {o \in [1..Cardinality(Names) -> Names] : {o[i] : i \in DOMAIN o} = Names}

Min(S) == CHOOSE x \in S : \A y \in S : x <= y

\* What Connect returns: err is "nil", "StatusError" (api.StatusErrorf, with
\* its HTTP code) or "wrapped" (fmt.Errorf around AcceptIncoming's error);
\* accepted is the set of entries AcceptIncoming was called on.
Response(secret, err, code, msg, accepted) ==
    [kind |-> "connect", secret |-> secret, err |-> err, code |-> code,
     msg |-> msg, accepted |-> accepted]

IsPrefix(s, t) == Len(s) <= Len(t) /\ SubSeq(t, 1, Len(s)) = s

IsSuffix(s, t) == Len(s) <= Len(t) /\ SubSeq(t, Len(t) - Len(s) + 1, Len(t)) = s

\* Connect with the secrets compared by strings.HasPrefix instead of `!=`.
SourceConnectPrefix(c, incomingSecret, order, upgraded) ==
    IF incomingSecret = <<>>
    THEN [conns |-> c,
          resp |-> Response(incomingSecret, "StatusError", StatusBadRequest,
                            "Missing migration source secret", {})]
    ELSE LET hits == {i \in DOMAIN order :
                         IsPrefix(incomingSecret, Secret(c, order[i]))}
         IN  IF hits = {}
             THEN [conns |-> c,
                   resp |-> Response(incomingSecret, "StatusError",
                                     StatusForbidden,
                                     "Invalid migration source secret", {})]
             ELSE LET connName == order[Min(hits)]
                  IN  [conns |-> AcceptIncoming(c, connName, upgraded),
                       resp |-> IF AcceptIncomingOk(c, connName, upgraded)
                                THEN Response(incomingSecret, "nil", 0, "",
                                              {connName})
                                ELSE Response(incomingSecret, "wrapped", 0,
                                              "Failed accepting incoming migration source connection",
                                              {connName})]

\* Connect without the check for a missing secret.
SourceConnectNoMissing(c, incomingSecret, order, upgraded) ==
    LET hits == {i \in DOMAIN order : ~(incomingSecret # Secret(c, order[i]))}
    IN  IF hits = {}
        THEN [conns |-> c,
              resp |-> Response(incomingSecret, "StatusError", StatusForbidden,
                                "Invalid migration source secret", {})]
        ELSE LET connName == order[Min(hits)]
             IN  [conns |-> AcceptIncoming(c, connName, upgraded),
                  resp |-> IF AcceptIncomingOk(c, connName, upgraded)
                           THEN Response(incomingSecret, "nil", 0, "",
                                         {connName})
                           ELSE Response(incomingSecret, "wrapped", 0,
                                         "Failed accepting incoming migration source connection",
                                         {connName})]

\* migrationSourceWs.Connect: the entries are visited in `order` (the order of
\* the range over the map); the first one whose secret equals the presented
\* one gets AcceptIncoming and Connect returns.
SourceConnect(c, incomingSecret, order, upgraded) ==
    IF incomingSecret = <<>>
    THEN [conns |-> c,
          resp |-> Response(incomingSecret, "StatusError", StatusBadRequest,
                            "Missing migration source secret", {})]
    ELSE LET hits == {i \in DOMAIN order :
                         ~(incomingSecret # Secret(c, order[i]))}
         IN  IF hits = {}
             THEN [conns |-> c,
                   resp |-> Response(incomingSecret, "StatusError",
                                     StatusForbidden,
                                     "Invalid migration source secret", {})]
             ELSE LET connName == order[Min(hits)]
                  IN  [conns |-> AcceptIncoming(c, connName, upgraded),
                       resp |-> IF AcceptIncomingOk(c, connName, upgraded)
                                THEN Response(incomingSecret, "nil", 0, "",
                                              {connName})
                                ELSE Response(incomingSecret, "wrapped", 0,
                                              "Failed accepting incoming migration source connection",
                                              {connName})]

\* Connect going on to the next entry when AcceptIncoming fails (`continue`
\* in place of the return of the wrapped error).
SinkConnectTryNext(c, incomingSecret, order, upgraded) ==
    IF incomingSecret = <<>>
    THEN [conns |-> c,
          resp |-> Response(incomingSecret, "StatusError", StatusBadRequest,
                            "Missing migration sink secret", {})]
    ELSE LET hits == {i \in DOMAIN order :
                         ~(incomingSecret # Secret(c, order[i]))}
             oks == {i \in hits : AcceptIncomingOk(c, order[i], upgraded)}
         IN  IF oks = {}
             THEN [conns |-> c,
                   resp |-> Response(incomingSecret, "StatusError",
                                     StatusForbidden,
                                     "Invalid migration sink secret",
                                     {order[i] : i \in hits})]
             ELSE LET connName == order[Min(oks)]
                  IN  [conns |-> AcceptIncoming(c, connName, upgraded),
                       resp |-> Response(incomingSecret, "nil", 0, "",
                                         {order[i] : i \in
                                             {j \in hits : j <= Min(oks)}})]

\* Connect comparing the lengths of the secrets only
\* (`len(incomingSecret) != len(conn.Secret())`).
SinkConnectByLength(c, incomingSecret, order, upgraded) ==
    IF incomingSecret = <<>>
    THEN [conns |-> c,
          resp |-> Response(incomingSecret, "StatusError", StatusBadRequest,
                            "Missing migration sink secret", {})]
    ELSE LET hits == {i \in DOMAIN order :
                         ~(Len(incomingSecret) # Len(Secret(c, order[i])))}
         IN  IF hits = {}
             THEN [conns |-> c,
                   resp |-> Response(incomingSecret, "StatusError",
                                     StatusForbidden,
                                     "Invalid migration sink secret", {})]
             ELSE LET connName == order[Min(hits)]
                  IN  [conns |-> AcceptIncoming(c, connName, upgraded),
                       resp |-> IF AcceptIncomingOk(c, connName, upgraded)
                                THEN Response(incomingSecret, "nil", 0, "",
                                              {connName})
                                ELSE Response(incomingSecret, "wrapped", 0,
                                              "Failed accepting incoming migration sink connection",
                                              {connName})]

\* migrationSink.Connect: as the source's, with the sink's messages.
SinkConnect(c, incomingSecret, order, upgraded) ==
    IF incomingSecret = <<>>
    THEN [conns |-> c,
          resp |-> Response(incomingSecret, "StatusError", StatusBadRequest,
                            "Missing migration sink secret", {})]
    ELSE LET hits == {i \in DOMAIN order :
                         ~(incomingSecret # Secret(c, order[i]))}
         IN  IF hits = {}
             THEN [conns |-> c,
                   resp |-> Response(incomingSecret, "StatusError",
                                     StatusForbidden,
                                     "Invalid migration sink secret", {})]
             ELSE LET connName == order[Min(hits)]
                  IN  [conns |-> AcceptIncoming(c, connName, upgraded),
                       resp |-> IF AcceptIncomingOk(c, connName, upgraded)
                                THEN Response(incomingSecret, "nil", 0, "",
                                              {connName})
                                ELSE Response(incomingSecret, "wrapped", 0,
                                              "Failed accepting incoming migration sink connection",
                                              {connName})]

\* A connection request presenting a secret of `presented` reaches the
\* operation's Connect handler, which runs Connect of the session's role.
ConnectWith(presented) ==
    /\ \E incomingSecret \in presented, order \in Orders, upgraded \in BOOLEAN :
          LET r == IF role = "source"
                   THEN SourceConnect(conns, incomingSecret, order, upgraded)
                   ELSE SinkConnect(conns, incomingSecret, order, upgraded)
          IN  /\ conns' = r.conns
              /\ resp' = r.resp
    /\ UNCHANGED <<role, controlLock, pc, call, todo, ret, pub,
                 io, ch, meta, neg>>

\* A request from anyone: any secret may be presented.
Connect == ConnectWith(Secrets)

\* A request from a peer that was given the session's secrets.
PeerConnect == ConnectWith({Secret(conns, n) : n \in Names})

\* ------------------------------------------- send, sendControl, disconnect

Ops == {"send", "sendControl", "disconnect"}

NoCall == [op |-> "none", err |-> FALSE, again |-> FALSE]
NoRet == "none"

\* A frame a call wrote to a stream or read from it, and whether that went
\* well: a "message" (ProtoSend), a "status" (ProtoSendControl), a "close"
\* frame (WriteMessage), or a "read" (ProtoRecv).
Frame(stream, kind, ok) == [stream |-> stream, kind |-> kind, ok |-> ok]

\* io keeps, for the goroutines it follows (its domain), the frames of the
\* call each is running or ran last; a new call starts with none.
NoFrames(p) == IF p \in DOMAIN io THEN [io EXCEPT ![p] = <<>>] ELSE io

WithFrame(p, frame) ==
    IF p \in DOMAIN io THEN [io EXCEPT ![p] = Append(@, frame)] ELSE io

\* ch keeps, for the goroutines it follows, the channel of the controlChannel
\* that started the goroutine: whether it was made, the calls of recv by its
\* goroutine, the responses sent on it.
WithChan(p, c) == IF p \in DOMAIN ch THEN [ch EXCEPT ![p] = c] ELSE ch

NewChan == [made |-> TRUE, recvs |-> 0, sent |-> <<>>]

WithRecv(p) ==
    IF p \in DOMAIN ch THEN [ch EXCEPT ![p].recvs = @ + 1] ELSE ch

WithSent(p, responses) ==
    IF p \in DOMAIN ch THEN [ch EXCEPT ![p].sent = @ \o responses] ELSE ch

\* A goroutine that is not inside a call starts one: send(m), disconnect() or
\* sendControl(err) with err nil or not. `again` marks a disconnect that
\* directly follows a disconnect the same goroutine completed.
CallOf(p, ops) ==
    /\ pc[p] \in {"idle", "returned"}
    /\ \E op \in ops, e \in BOOLEAN :
          /\ e => op = "sendControl"
          /\ call' = [call EXCEPT ![p] =
                        [op |-> op, err |-> e,
                         again |-> /\ op = "disconnect"
                                   /\ pc[p] = "returned"
                                   /\ call[p].op = "disconnect"]]
          /\ pc' = [pc EXCEPT ![p] =
                        CASE op = "send" -> "send_lock"
                          [] op = "sendControl" -> "sc_lock"
                          [] op = "disconnect" -> "dc_lock"]
    /\ ret' = [ret EXCEPT ![p] = NoRet]
    /\ io' = NoFrames(p)
    /\ UNCHANGED <<role, conns, controlLock, todo, resp, pub, ch, meta, neg>>

Call(p) == CallOf(p, Ops)

\* send without waiting for the lock: the write starts whoever holds it.
sendLockNoWait(p) ==
    /\ pc[p] = "send_lock"
    /\ controlLock' = p
    /\ pc' = [pc EXCEPT ![p] = "send_ws"]
    /\ UNCHANGED <<role, conns, call, todo, ret, resp, pub,
                 io, ch, meta, neg>>

\* send: c.controlLock.Lock()
sendLock(p) ==
    /\ pc[p] = "send_lock"
    /\ controlLock = 0
    /\ controlLock' = p
    /\ pc' = [pc EXCEPT ![p] = "send_ws"]
    /\ UNCHANGED <<role, conns, call, todo, ret, resp, pub,
                 io, ch, meta, neg>>

\* send unlocking by hand after the write only: the return for a missing
\* stream leaves the lock held.
sendWebSocketNoUnlock(p) ==
    /\ pc[p] = "send_ws"
    /\ IF WebSocket(conns, SecretNameControl)
       THEN /\ pc' = [pc EXCEPT ![p] = "send_write"]
            /\ ret' = ret
       ELSE /\ pc' = [pc EXCEPT ![p] = "returned"]
            /\ ret' = [ret EXCEPT ![p] = "Control connection not initialized"]
    /\ UNCHANGED <<role, conns, controlLock, call, todo, resp, pub,
                   io, ch, meta, neg>>

\* send: the control entry's WebSocket; without a stream send returns
\* "Control connection not initialized", with one it starts writing m.
sendWebSocket(p) ==
    /\ pc[p] = "send_ws"
    /\ IF WebSocket(conns, SecretNameControl)
       THEN /\ pc' = [pc EXCEPT ![p] = "send_write"]
            /\ ret' = ret
       ELSE /\ pc' = [pc EXCEPT ![p] = "send_ret"]
            /\ ret' = [ret EXCEPT ![p] = "Control connection not initialized"]
    /\ UNCHANGED <<role, conns, controlLock, call, todo, resp, pub,
                 io, ch, meta, neg>>

\* send: migration.ProtoSend under the write deadline ends, well or not.
sendWrite(p) ==
    /\ pc[p] = "send_write"
    /\ \E ok \in BOOLEAN :
          /\ ret' = [ret EXCEPT ![p] = IF ok THEN "nil" ELSE "ProtoSend failed"]
          /\ io' = WithFrame(p, Frame(SecretNameControl, "message", ok))
    /\ pc' = [pc EXCEPT ![p] = "send_ret"]
    /\ UNCHANGED <<role, conns, controlLock, call, todo, resp, pub,
                 ch, meta, neg>>

\* send returns: the deferred c.controlLock.Unlock() runs.
sendReturn(p) ==
    /\ pc[p] = "send_ret"
    /\ controlLock' = 0
    /\ pc' = [pc EXCEPT ![p] = "returned"]
    /\ UNCHANGED <<role, conns, call, todo, ret, resp, pub,
                 io, ch, meta, neg>>

\* disconnect: c.controlLock.Lock()
disconnectLock(p) ==
    /\ pc[p] = "dc_lock"
    /\ controlLock = 0
    /\ controlLock' = p
    /\ pc' = [pc EXCEPT ![p] = "dc_ws"]
    /\ UNCHANGED <<role, conns, call, todo, ret, resp, pub,
                 io, ch, meta, neg>>

\* disconnect: the control entry's WebSocket within one second; with a stream
\* the close frame is written, without one the write is skipped.
disconnectWebSocket(p) ==
    /\ pc[p] = "dc_ws"
    /\ pc' = [pc EXCEPT ![p] =
                 IF WebSocket(conns, SecretNameControl)
                 THEN "dc_write" ELSE "dc_unlock"]
    /\ UNCHANGED <<role, conns, controlLock, call, todo, ret, resp, pub,
                 io, ch, meta, neg>>

\* disconnect: conn.WriteMessage(websocket.CloseMessage, ...) ends; whether it
\* failed is dropped (`_ =`), so disconnect goes on the same way after both
\* outcomes.
disconnectWrite(p) ==
    /\ pc[p] = "dc_write"
    /\ \E ok \in BOOLEAN :
          io' = WithFrame(p, Frame(SecretNameControl, "close", ok))
    /\ pc' = [pc EXCEPT ![p] = "dc_unlock"]
    /\ UNCHANGED <<role, conns, controlLock, call, todo, ret, resp, pub,
                 ch, meta, neg>>

\* disconnect: c.controlLock.Unlock(), then the loop over c.conns starts.
disconnectUnlock(p) ==
    /\ pc[p] = "dc_unlock"
    /\ controlLock' = 0
    /\ todo' = [todo EXCEPT ![p] = Names]
    /\ pc' = [pc EXCEPT ![p] = "dc_close"]
    /\ UNCHANGED <<role, conns, call, ret, resp, pub,
                 io, ch, meta, neg>>

\* disconnect closing only the entries that are established.
disconnectCloseEstablished(p) ==
    /\ pc[p] = "dc_close"
    /\ IF todo[p] = {}
       THEN /\ pc' = [pc EXCEPT ![p] = "returned"]
            /\ UNCHANGED <<conns, todo>>
       ELSE /\ \E n \in todo[p] :
                  /\ conns' = IF conns[n].state = "established"
                              THEN Close(conns, n) ELSE conns
                  /\ todo' = [todo EXCEPT ![p] = todo[p] \ {n}]
            /\ pc' = pc
    /\ UNCHANGED <<role, controlLock, call, ret, resp, pub,
                 io, ch, meta, neg>>

\* disconnect writing a close frame to each entry before it closes it.
disconnectCloseWithFrame(p) ==
    /\ pc[p] = "dc_close"
    /\ IF todo[p] = {}
       THEN /\ pc' = [pc EXCEPT ![p] = "returned"]
            /\ UNCHANGED <<conns, todo, io>>
       ELSE /\ \E n \in todo[p] :
                  /\ conns' = Close(conns, n)
                  /\ todo' = [todo EXCEPT ![p] = todo[p] \ {n}]
                  /\ io' = WithFrame(p, Frame(n, "close", TRUE))
            /\ pc' = pc
    /\ UNCHANGED <<role, controlLock, call, ret, resp, pub, ch, meta, neg>>

\* disconnect taking each entry out of the map as it closes it
\* (`delete(c.conns, name)` in the loop); the control entry, which send and
\* recv index, is closed in place.
disconnectCloseDelete(p) ==
    /\ pc[p] = "dc_close"
    /\ IF todo[p] = {}
       THEN /\ pc' = [pc EXCEPT ![p] = "returned"]
            /\ UNCHANGED <<conns, todo>>
       ELSE /\ \E n \in todo[p] :
                  /\ conns' = IF n = SecretNameControl
                              THEN Close(conns, n)
                              ELSE [m \in DOMAIN conns \ {n} |-> conns[m]]
                  /\ todo' = [todo EXCEPT ![p] = todo[p] \ {n}]
            /\ pc' = pc
    /\ UNCHANGED <<role, controlLock, call, ret, resp, pub,
                 io, ch, meta, neg>>

\* disconnect: one turn of `for _, conn := range c.conns { conn.Close() }`,
\* or, with every entry visited, the return (to sendControl's caller when
\* sendControl made the call).
disconnectClose(p) ==
    /\ pc[p] = "dc_close"
    /\ IF todo[p] = {}
       THEN /\ pc' = [pc EXCEPT ![p] = "returned"]
            /\ UNCHANGED <<conns, todo>>
       ELSE /\ \E n \in todo[p] :
                  /\ conns' = Close(conns, n)
                  /\ todo' = [todo EXCEPT ![p] = todo[p] \ {n}]
            /\ pc' = pc
    /\ UNCHANGED <<role, controlLock, call, ret, resp, pub,
                 io, ch, meta, neg>>

\* sendControl: c.controlLock.Lock()
sendControlLock(p) ==
    /\ pc[p] = "sc_lock"
    /\ controlLock = 0
    /\ controlLock' = p
    /\ pc' = [pc EXCEPT ![p] = "sc_ws"]
    /\ UNCHANGED <<role, conns, call, todo, ret, resp, pub,
                 io, ch, meta, neg>>

\* sendControl: the control entry's WebSocket; with a stream the status is
\* written, without one the write is skipped.
sendControlWebSocket(p) ==
    /\ pc[p] = "sc_ws"
    /\ pc' = [pc EXCEPT ![p] =
                 IF WebSocket(conns, SecretNameControl)
                 THEN "sc_write" ELSE "sc_unlock"]
    /\ UNCHANGED <<role, conns, controlLock, call, todo, ret, resp, pub,
                 io, ch, meta, neg>>

\* sendControl: migration.ProtoSendControl(conn, err) ends; it returns nothing,
\* so sendControl goes on the same way after a written and an unwritten
\* status.
sendControlWrite(p) ==
    /\ pc[p] = "sc_write"
    /\ \E ok \in BOOLEAN :
          io' = WithFrame(p, Frame(SecretNameControl, "status", ok))
    /\ pc' = [pc EXCEPT ![p] = "sc_unlock"]
    /\ UNCHANGED <<role, conns, controlLock, call, todo, ret, resp, pub,
                 ch, meta, neg>>

\* sendControl that never calls disconnect.
sendControlUnlockOnly(p) ==
    /\ pc[p] = "sc_unlock"
    /\ controlLock' = 0
    /\ pc' = [pc EXCEPT ![p] = "returned"]
    /\ UNCHANGED <<role, conns, call, todo, ret, resp, pub,
                 io, ch, meta, neg>>

\* sendControl calling disconnect before its Unlock: the lock is still held
\* when disconnect asks for it.
sendControlKeepLock(p) ==
    /\ pc[p] = "sc_unlock"
    /\ controlLock' = IF call[p].err THEN controlLock ELSE 0
    /\ pc' = [pc EXCEPT ![p] = IF call[p].err THEN "dc_lock" ELSE "returned"]
    /\ UNCHANGED <<role, conns, call, todo, ret, resp, pub,
                   io, ch, meta, neg>>

\* sendControl: c.controlLock.Unlock(); then `if err != nil { c.disconnect() }`,
\* else the return.
sendControlUnlock(p) ==
    /\ pc[p] = "sc_unlock"
    /\ controlLock' = 0
    /\ pc' = [pc EXCEPT ![p] = IF call[p].err THEN "dc_lock" ELSE "returned"]
    /\ UNCHANGED <<role, conns, call, todo, ret, resp, pub,
                 io, ch, meta, neg>>

\* One step of goroutine p.
Step(p) ==
    \/ Call(p)
    \/ sendLock(p)
    \/ sendWebSocket(p)
    \/ sendWrite(p)
    \/ sendReturn(p)
    \/ disconnectLock(p)
    \/ disconnectWebSocket(p)
    \/ disconnectWrite(p)
    \/ disconnectUnlock(p)
    \/ disconnectClose(p)
    \/ sendControlLock(p)
    \/ sendControlWebSocket(p)
    \/ sendControlWrite(p)
    \/ sendControlUnlock(p)

\* ------------------------------------------------- recv, controlChannel

ErrNotInitialized == "Control connection not initialized"

\* The positions of a goroutine that is a reader of the control stream: inside
\* recv, or the background goroutine of controlChannel before it has ended.
ReaderPcs == {"cc_start", "recv_ws", "recv_read", "cc_send"}

\* The session's use of its readers: it starts a reader (a recv of its own or
\* a controlChannel) only while it has no other.
NoReader == \A q \in Procs : pc[q] \notin ReaderPcs

\* Where recv returns to: its caller, or the background goroutine of
\* controlChannel, which then sends the response on ch.
AfterRecv(p) == IF call[p].op = "recv" THEN "returned" ELSE "cc_send"

\* The session calls recv(m) on goroutine p.
CallRecv(p) ==
    /\ pc[p] \in {"idle", "returned"}
    /\ NoReader
    /\ call' = [call EXCEPT ![p] = [op |-> "recv", err |-> FALSE, again |-> FALSE]]
    /\ pc' = [pc EXCEPT ![p] = "recv_ws"]
    /\ ret' = [ret EXCEPT ![p] = NoRet]
    /\ io' = NoFrames(p)
    /\ UNCHANGED <<role, conns, controlLock, todo, resp, pub, ch, meta, neg>>

\* recv: the control entry's WebSocket; without a stream recv returns
\* "Control connection not initialized", with one it starts reading. No lock
\* is taken.
recvWebSocket(p) ==
    /\ pc[p] = "recv_ws"
    /\ IF WebSocket(conns, SecretNameControl)
       THEN /\ pc' = [pc EXCEPT ![p] = "recv_read"]
            /\ ret' = ret
       ELSE /\ pc' = [pc EXCEPT ![p] = AfterRecv(p)]
            /\ ret' = [ret EXCEPT ![p] = ErrNotInitialized]
    /\ UNCHANGED <<role, conns, controlLock, call, todo, resp, pub,
                   io, ch, meta, neg>>

\* recv: migration.ProtoRecv ends, with a message decoded into m or with an
\* error (a closed or broken stream); recv returns what it returned.
recvRead(p) ==
    /\ pc[p] = "recv_read"
    /\ \E ok \in BOOLEAN :
          /\ ret' = [ret EXCEPT ![p] = IF ok THEN "nil" ELSE "ProtoRecv failed"]
          /\ io' = WithFrame(p, Frame(SecretNameControl, "read", ok))
    /\ pc' = [pc EXCEPT ![p] = AfterRecv(p)]
    /\ UNCHANGED <<role, conns, controlLock, call, todo, resp, pub,
                   ch, meta, neg>>

\* A ControlResponse: the message, decoded or not, and Err.
ControlResponse(err) == [decoded |-> err = "nil", err |-> err]

\* controlChannel starting its goroutine twice: a second reader of the same
\* stream runs on another free goroutine.
controlChannelTwoReaders(p) ==
    /\ pc[p] \in {"idle", "returned"}
    /\ NoReader
    /\ \E q \in Procs \ {p} :
          /\ pc[q] \in {"idle", "returned"}
          /\ ch' = [r \in DOMAIN ch |-> IF r \in {p, q} THEN NewChan ELSE ch[r]]
          /\ call' = [call EXCEPT
                        ![p] = [op |-> "controlChannel", err |-> FALSE,
                                again |-> FALSE],
                        ![q] = [op |-> "controlChannel", err |-> FALSE,
                                again |-> FALSE]]
          /\ pc' = [pc EXCEPT ![p] = "cc_start", ![q] = "cc_start"]
          /\ ret' = [ret EXCEPT ![p] = NoRet, ![q] = NoRet]
    /\ io' = NoFrames(p)
    /\ UNCHANGED <<role, conns, controlLock, todo, resp, pub, meta, neg>>

\* controlChannel: `ch := make(chan ...)`, `go func() {...}()`, `return ch`;
\* goroutine p is the one started.
controlChannel(p) ==
    /\ pc[p] \in {"idle", "returned"}
    /\ NoReader
    /\ ch' = WithChan(p, NewChan)
    /\ call' = [call EXCEPT ![p] =
                  [op |-> "controlChannel", err |-> FALSE, again |-> FALSE]]
    /\ pc' = [pc EXCEPT ![p] = "cc_start"]
    /\ ret' = [ret EXCEPT ![p] = NoRet]
    /\ io' = NoFrames(p)
    /\ UNCHANGED <<role, conns, controlLock, todo, resp, pub, meta, neg>>

\* The background goroutine: `err := c.recv(&resp.MigrationControl)` is called.
readerRecv(p) ==
    /\ pc[p] = "cc_start"
    /\ ch' = WithRecv(p)
    /\ pc' = [pc EXCEPT ![p] = "recv_ws"]
    /\ UNCHANGED <<role, conns, controlLock, call, todo, ret, resp, pub,
                   io, meta, neg>>

\* The background goroutine without the `return` after the send of a failed
\* recv: the response is sent a second time.
readerSendTwice(p) ==
    /\ pc[p] = "cc_send"
    /\ ch' = WithSent(p, IF ret[p] # "nil"
                         THEN <<ControlResponse(ret[p]), ControlResponse(ret[p])>>
                         ELSE <<ControlResponse(ret[p])>>)
    /\ pc' = [pc EXCEPT ![p] = "returned"]
    /\ UNCHANGED <<role, conns, controlLock, call, todo, ret, resp, pub,
                   io, meta, neg>>

\* The background goroutine: with an error, `resp.Err = err; ch <- &resp;
\* return`; without, `ch <- &resp`. ch has no buffer: the send ends when the
\* holder of the channel receives, and the goroutine ends after it.
readerSend(p) ==
    /\ pc[p] = "cc_send"
    /\ ch' = WithSent(p, <<ControlResponse(ret[p])>>)
    /\ pc' = [pc EXCEPT ![p] = "returned"]
    /\ UNCHANGED <<role, conns, controlLock, call, todo, ret, resp, pub,
                   io, meta, neg>>

\* One step of goroutine p as a reader.
ReadStep(p) ==
    \/ CallRecv(p)
    \/ recvWebSocket(p)
    \/ recvRead(p)
    \/ controlChannel(p)
    \/ readerRecv(p)
    \/ readerSend(p)

\* The goroutines are where a new session leaves them: the lock free, no call
\* in progress, nothing answered yet; the frames of the goroutines of
\* `followed` are kept.
GoroutinesStart(followed) ==
    /\ controlLock = 0
    /\ pc = [p \in Procs |-> "idle"]
    /\ call = [p \in Procs |-> NoCall]
    /\ todo = [p \in Procs |-> {}]
    /\ ret = [p \in Procs |-> NoRet]
    /\ resp = NoResp
    /\ io = [p \in followed |-> <<>>]
    /\ ch = [p \in followed |-> NoChan]
    /\ meta = NoMeta

GoroutinesInit == GoroutinesStart({})

\* The secrets of a session whose two entries got different one-letter tokens.
IssuedSecret(n) == IF n = SecretNameControl THEN <<"a">> ELSE <<"b">>

\* A new session: every entry pending with the secret it was issued. send,
\* sendControl and disconnect are methods of the embedded migrationFields, the
\* same code for both roles, so the session here is a source; both roles'
\* Connect are exercised under SpecConnect.
SessionStart(followed) ==
    /\ role = "source"
    /\ conns = [n \in Names |-> [secret |-> IssuedSecret(n), state |-> "pending"]]
    /\ GoroutinesStart(followed)

SessionInit == SessionStart({})

SessionNext ==
    \/ PeerConnect
    \/ \E p \in Procs : Step(p)

\* ---------------------------------------------------------------- publish

\* The state of the publish command and of the servers it talks to:
\*   pc                       position in cmdPublish.Run
\*   isSnapshot               instance.IsSnapshot(cName)
\*   flagForce, flagReuse     the --force and --reuse flags
\*   remote                   cRemote != iRemote (push to another remote)
\*   badArg                   some key=value argument holds no "="
\*   badExpire                --expire is given and is no RFC 3339 date
\*   aliasExists              a requested alias exists on the target
\*   running, ephemeral       the instance on the source server s
\*   destroyed                the instance was stopped while ephemeral
\*   srcCreated               the image was created on s at some point
\*   srcImage, dstImage       the image exists on s / was copied to d
\*   wasRunning, wasEphemeral Run's locals of that name
\*   deferStart, deferDelete  the deferred calls registered and not yet run
\*   log                      the calls made so far, each with its outcome
\*   result                   the error Run returns ("nil" for none)
Outcome2 == {"ok", "fail"}

\* A call that returns an operation: the request may fail, or the wait.
Outcome3 == {"ok", "reqfail", "waitfail"}

ErrRunning == "The instance is currently running. Use --force to have it stopped and restarted"

Logged(pb, op, out) == [pb EXCEPT !.log = Append(pb.log, [op |-> op, out |-> out])]

\* `return err`: the deferred calls run next.
Return(pb, err) == [pb EXCEPT !.result = err, !.pc = "deferred"]

PublishInit ==
    \E sn \in BOOLEAN, fo \in BOOLEAN, re \in BOOLEAN, rm \in BOOLEAN,
       ba \in BOOLEAN, be \in BOOLEAN, al \in BOOLEAN,
       ru \in BOOLEAN, ep \in BOOLEAN :
        pub = [pc |-> "start",
               isSnapshot |-> sn, flagForce |-> fo, flagReuse |-> re,
               remote |-> rm, badArg |-> ba, badExpire |-> be,
               aliasExists |-> al,
               running |-> ru, ephemeral |-> ep, destroyed |-> FALSE,
               srcCreated |-> FALSE, srcImage |-> FALSE, dstImage |-> FALSE,
               wasRunning |-> FALSE, wasEphemeral |-> FALSE,
               deferStart |-> FALSE, deferDelete |-> FALSE,
               log |-> <<>>, result |-> "none"]

\* The start without the check for a snapshot.
publishStartNoSnapshotCheck ==
    /\ pub.pc = "start"
    /\ pub' = [pub EXCEPT !.pc = "GetInstance"]
    /\ UNCHANGED sessionVars

\* `if !instance.IsSnapshot(cName)`: a snapshot skips the whole block.
publishStart ==
    /\ pub.pc = "start"
    /\ pub' = [pub EXCEPT !.pc = IF pub.isSnapshot THEN "properties"
                                 ELSE "GetInstance"]
    /\ UNCHANGED sessionVars

\* GetInstance without the --force check: a running instance is always stopped.
publishGetInstanceNoForceCheck ==
    /\ pub.pc = "GetInstance"
    /\ \E out \in Outcome2 :
          LET pb == Logged(pub, "GetInstance", out)
          IN  pub' =
                IF out # "ok" THEN Return(pb, "GetInstance")
                ELSE LET pw == [pb EXCEPT !.wasRunning = pub.running,
                                          !.wasEphemeral = pub.ephemeral]
                     IN  IF pw.wasRunning
                         THEN [pw EXCEPT !.pc = IF pub.ephemeral
                                                THEN "ClearEphemeral"
                                                ELSE "Stop"]
                         ELSE [pw EXCEPT !.pc = "properties"]
    /\ UNCHANGED sessionVars

\* s.GetInstance, wasRunning, wasEphemeral and the --force check.
publishGetInstance ==
    /\ pub.pc = "GetInstance"
    /\ \E out \in Outcome2 :
          LET pb == Logged(pub, "GetInstance", out)
          IN  pub' =
                IF out # "ok" THEN Return(pb, "GetInstance")
                ELSE LET pw == [pb EXCEPT !.wasRunning = pub.running,
                                          !.wasEphemeral = pub.ephemeral]
                     IN  IF pw.wasRunning
                         THEN IF ~pub.flagForce
                              THEN Return(pw, ErrRunning)
                              ELSE [pw EXCEPT !.pc = IF pub.ephemeral
                                                     THEN "ClearEphemeral"
                                                     ELSE "Stop"]
                         ELSE [pw EXCEPT !.pc = "properties"]
    /\ UNCHANGED sessionVars

\* The clearing of the flag with its errors dropped: the stop follows anyway.
publishClearEphemeralIgnoreError ==
    /\ pub.pc = "ClearEphemeral"
    /\ \E out \in Outcome3 :
          LET pb == Logged(pub, "UpdateInstance ephemeral=false", out)
          IN  pub' = IF out = "ok"
                     THEN [pb EXCEPT !.ephemeral = FALSE, !.pc = "Stop"]
                     ELSE [pb EXCEPT !.pc = "Stop"]
    /\ UNCHANGED sessionVars

\* ct.Ephemeral = false; s.UpdateInstance; op.Wait. A failed update changes
\* nothing on the server.
publishClearEphemeral ==
    /\ pub.pc = "ClearEphemeral"
    /\ \E out \in Outcome3 :
          LET pb == Logged(pub, "UpdateInstance ephemeral=false", out)
          IN  pub' = IF out = "ok"
                     THEN [pb EXCEPT !.ephemeral = FALSE, !.pc = "Stop"]
                     ELSE Return(pb, "UpdateInstance")
    /\ UNCHANGED sessionVars

\* The stop request without the deferred restart.
publishStopNoDefer ==
    /\ pub.pc = "Stop"
    /\ \E out \in Outcome3 :
          LET pb == Logged(pub, "stop", out)
          IN  pub' =
                CASE out = "reqfail" -> Return(pb, "UpdateInstanceState")
                  [] out = "waitfail" -> Return(pb, "Stopping instance failed!")
                  [] out = "ok" ->
                       [pb EXCEPT !.running = FALSE,
                                  !.destroyed = pub.ephemeral,
                                  !.pc = IF pub.wasEphemeral
                                         THEN "RestoreGetInstance"
                                         ELSE "properties"]
    /\ UNCHANGED sessionVars

\* s.UpdateInstanceState with Action stop; op.Wait; then the restart is
\* deferred. A failed stop leaves the instance running; an instance stopped
\* while ephemeral is destroyed.
publishStop ==
    /\ pub.pc = "Stop"
    /\ \E out \in Outcome3 :
          LET pb == Logged(pub, "stop", out)
          IN  pub' =
                CASE out = "reqfail" -> Return(pb, "UpdateInstanceState")
                  [] out = "waitfail" -> Return(pb, "Stopping instance failed!")
                  [] out = "ok" ->
                       [pb EXCEPT !.running = FALSE,
                                  !.destroyed = pub.ephemeral,
                                  !.deferStart = TRUE,
                                  !.pc = IF pub.wasEphemeral
                                         THEN "RestoreGetInstance"
                                         ELSE "properties"]
    /\ UNCHANGED sessionVars

\* `if wasEphemeral`: s.GetInstance again.
publishRestoreGetInstance ==
    /\ pub.pc = "RestoreGetInstance"
    /\ \E out \in Outcome2 :
          LET pb == Logged(pub, "restore GetInstance", out)
          IN  pub' = IF out = "ok"
                     THEN [pb EXCEPT !.pc = "RestoreEphemeral"]
                     ELSE Return(pb, "restore GetInstance")
    /\ UNCHANGED sessionVars

\* ct.Ephemeral = true; s.UpdateInstance; op.Wait.
publishRestoreEphemeral ==
    /\ pub.pc = "RestoreEphemeral"
    /\ \E out \in Outcome3 :
          LET pb == Logged(pub, "UpdateInstance ephemeral=true", out)
          IN  pub' = IF out = "ok"
                     THEN [pb EXCEPT !.ephemeral = TRUE, !.pc = "properties"]
                     ELSE Return(pb, "restore UpdateInstance")
    /\ UNCHANGED sessionVars

\* The loop over the key=value arguments.
publishProperties ==
    /\ pub.pc = "properties"
    /\ pub' = IF pub.badArg THEN Return(pub, "Bad key=value pair")
              ELSE [pub EXCEPT !.pc = "expire"]
    /\ UNCHANGED sessionVars

\* time.Parse of --expire.
publishExpire ==
    /\ pub.pc = "expire"
    /\ pub' = IF pub.badExpire THEN Return(pub, "Invalid expiration date")
              ELSE [pub EXCEPT !.pc = "GetCommonAliases"]
    /\ UNCHANGED sessionVars

\* GetCommonAliases and the check for aliases that exist without --reuse.
publishGetCommonAliases ==
    /\ pub.pc = "GetCommonAliases"
    /\ \E out \in Outcome2 :
          LET pb == Logged(pub, "GetCommonAliases", out)
          IN  pub' =
                IF out # "ok" THEN Return(pb, "Error retrieving aliases")
                ELSE IF ~pub.flagReuse /\ pub.aliasExists
                     THEN Return(pb, "Aliases already exists")
                     ELSE [pb EXCEPT !.pc = "CreateImage"]
    /\ UNCHANGED sessionVars

\* s.CreateImage
publishCreateImage ==
    /\ pub.pc = "CreateImage"
    /\ \E out \in Outcome2 :
          LET pb == Logged(pub, "CreateImage", out)
          IN  pub' = IF out = "ok" THEN [pb EXCEPT !.pc = "AddHandler"]
                     ELSE Return(pb, "CreateImage")
    /\ UNCHANGED sessionVars

\* op.AddHandler
publishAddHandler ==
    /\ pub.pc = "AddHandler"
    /\ \E out \in Outcome2 :
          LET pb == Logged(pub, "AddHandler", out)
          IN  pub' = IF out = "ok" THEN [pb EXCEPT !.pc = "CancelableWait"]
                     ELSE Return(pb, "AddHandler")
    /\ UNCHANGED sessionVars

\* cli.CancelableWait: when the operation succeeds the image exists on s.
publishCancelableWait ==
    /\ pub.pc = "CancelableWait"
    /\ \E out \in Outcome2 :
          LET pb == Logged(pub, "CancelableWait", out)
          IN  pub' = IF out = "ok"
                     THEN [pb EXCEPT !.srcCreated = TRUE, !.srcImage = TRUE,
                                     !.pc = "fingerprint"]
                     ELSE Return(pb, "CancelableWait")
    /\ UNCHANGED sessionVars

\* The fingerprint step without the deferred deletion.
publishFingerprintNoDefer ==
    /\ pub.pc = "fingerprint"
    /\ \E out \in Outcome2 :
          LET pb == Logged(pub, "fingerprint", out)
          IN  pub' =
                IF out # "ok" THEN Return(pb, "Bad fingerprint")
                ELSE IF pub.remote
                     THEN [pb EXCEPT !.pc = "GetImage"]
                     ELSE [pb EXCEPT !.pc = IF pub.flagReuse
                                            THEN "deleteImagesByAliases"
                                            ELSE "ensureImageAliases"]
    /\ UNCHANGED sessionVars

\* The fingerprint out of the operation's metadata; then, for a remote
\* publish, the deletion of the image on s is deferred.
publishFingerprint ==
    /\ pub.pc = "fingerprint"
    /\ \E out \in Outcome2 :
          LET pb == Logged(pub, "fingerprint", out)
          IN  pub' =
                IF out # "ok" THEN Return(pb, "Bad fingerprint")
                ELSE IF pub.remote
                     THEN [pb EXCEPT !.deferDelete = TRUE, !.pc = "GetImage"]
                     ELSE [pb EXCEPT !.pc = IF pub.flagReuse
                                            THEN "deleteImagesByAliases"
                                            ELSE "ensureImageAliases"]
    /\ UNCHANGED sessionVars

\* s.GetImage
publishGetImage ==
    /\ pub.pc = "GetImage"
    /\ \E out \in Outcome2 :
          LET pb == Logged(pub, "GetImage", out)
          IN  pub' = IF out = "ok" THEN [pb EXCEPT !.pc = "CopyImage"]
                     ELSE Return(pb, "GetImage")
    /\ UNCHANGED sessionVars

\* d.CopyImage; op.Wait
publishCopyImage ==
    /\ pub.pc = "CopyImage"
    /\ \E out \in Outcome3 :
          LET pb == Logged(pub, "CopyImage", out)
          IN  pub' = IF out = "ok"
                     THEN [pb EXCEPT !.dstImage = TRUE,
                                     !.pc = IF pub.flagReuse
                                            THEN "deleteImagesByAliases"
                                            ELSE "ensureImageAliases"]
                     ELSE Return(pb, "CopyImage")
    /\ UNCHANGED sessionVars

\* `if c.flagReuse`: deleteImagesByAliases
publishDeleteImagesByAliases ==
    /\ pub.pc = "deleteImagesByAliases"
    /\ \E out \in Outcome2 :
          LET pb == Logged(pub, "deleteImagesByAliases", out)
          IN  pub' = IF out = "ok" THEN [pb EXCEPT !.pc = "ensureImageAliases"]
                     ELSE Return(pb, "deleteImagesByAliases")
    /\ UNCHANGED sessionVars

\* ensureImageAliases, then `return nil`.
publishEnsureImageAliases ==
    /\ pub.pc = "ensureImageAliases"
    /\ \E out \in Outcome2 :
          LET pb == Logged(pub, "ensureImageAliases", out)
          IN  pub' = IF out = "ok" THEN Return(pb, "nil")
                     ELSE Return(pb, "ensureImageAliases")
    /\ UNCHANGED sessionVars

\* The deferred `s.DeleteImage(fingerprint)`: registered last, it runs first;
\* what it returns is dropped.
publishDeferredDelete ==
    /\ pub.pc = "deferred"
    /\ pub.deferDelete
    /\ \E out \in Outcome2 :
          pub' = [Logged(pub, "DeleteImage", out) EXCEPT
                     !.srcImage = IF out = "ok" THEN FALSE ELSE pub.srcImage,
                     !.deferDelete = FALSE]
    /\ UNCHANGED sessionVars

\* The deferred restart whose error becomes Run's result.
publishDeferredStartSetsResult ==
    /\ pub.pc = "deferred"
    /\ ~pub.deferDelete
    /\ pub.deferStart
    /\ \E out \in Outcome3 :
          pub' = [Logged(pub, "start", out) EXCEPT
                     !.running = IF out = "ok" THEN TRUE ELSE pub.running,
                     !.result = IF out = "ok" THEN pub.result ELSE "start",
                     !.deferStart = FALSE]
    /\ UNCHANGED sessionVars

\* The deferred restart: s.UpdateInstanceState with Action start; op.Wait. Its
\* errors go to variables of the enclosing block, not to Run's result.
publishDeferredStart ==
    /\ pub.pc = "deferred"
    /\ ~pub.deferDelete
    /\ pub.deferStart
    /\ \E out \in Outcome3 :
          pub' = [Logged(pub, "start", out) EXCEPT
                     !.running = IF out = "ok" THEN TRUE ELSE pub.running,
                     !.deferStart = FALSE]
    /\ UNCHANGED sessionVars

\* Run has returned.
publishExit ==
    /\ pub.pc = "deferred"
    /\ ~pub.deferDelete
    /\ ~pub.deferStart
    /\ pub' = [pub EXCEPT !.pc = "done"]
    /\ UNCHANGED sessionVars

PublishNext ==
    \/ publishStart
    \/ publishGetInstance
    \/ publishClearEphemeral
    \/ publishStop
    \/ publishRestoreGetInstance
    \/ publishRestoreEphemeral
    \/ publishProperties
    \/ publishExpire
    \/ publishGetCommonAliases
    \/ publishCreateImage
    \/ publishAddHandler
    \/ publishCancelableWait
    \/ publishFingerprint
    \/ publishGetImage
    \/ publishCopyImage
    \/ publishDeleteImagesByAliases
    \/ publishEnsureImageAliases
    \/ publishDeferredDelete
    \/ publishDeferredStart
    \/ publishExit

\* No session: the publish command runs in the client.
SessionOff ==
    /\ role = "source"
    /\ conns = [n \in Names |-> [secret |-> IssuedSecret(n), state |-> "pending"]]
    /\ GoroutinesInit

\* No negotiation: none has been run.
NegotiationOff == neg = NoNeg

InitPublish == SessionOff /\ PublishInit /\ NegotiationOff

\* One run of the publish command, for every input and every outcome of the
\* calls it makes.
SpecPublish == InitPublish /\ [][PublishNext]_vars

\* --------------------------------------------- the session's specifications

\* No publish command: the session lives in the daemon.
PublishOff == pub = [pc |-> "off"]

Init == SessionInit /\ PublishOff /\ NegotiationOff

Next == SessionNext

Spec == Init /\ [][Next]_vars

\* The steps at which a goroutine asks for controlLock, and its other steps
\* inside a call.
Acquire(p) == sendLock(p) \/ disconnectLock(p) \/ sendControlLock(p)

Advance(p) ==
    \/ sendWebSocket(p)
    \/ sendWrite(p)
    \/ sendReturn(p)
    \/ disconnectWebSocket(p)
    \/ disconnectWrite(p)
    \/ disconnectUnlock(p)
    \/ disconnectClose(p)
    \/ sendControlWebSocket(p)
    \/ sendControlWrite(p)
    \/ sendControlUnlock(p)

\* The scheduling: a goroutine inside a call goes on running, and every write
\* ends (each has a deadline: 30 s in send and disconnect, 10 s in
\* sendControl); a goroutine waiting in Lock gets the mutex if it is free
\* again and again (sync.Mutex hands it to a waiter that has waited long).
Fairness ==
    \A p \in Procs : WF_vars(Advance(p)) /\ SF_vars(Acquire(p))

SpecFair == Init /\ [][Next]_vars /\ Fairness

\* The session with the frames and the channel of one goroutine kept: the
\* goroutines run the same code, so what holds of one's calls among the
\* others' holds of every one's.
Followed == {1}

InitFrames == SessionStart(Followed) /\ PublishOff /\ NegotiationOff

SpecFrames == InitFrames /\ [][Next]_vars

\* The session's direct calls: goroutines that call send, recv and disconnect
\* while the peer connects.
CallSend(p) == CallOf(p, {"send", "disconnect"})

DisconnectStep(p) ==
    \/ disconnectLock(p)
    \/ disconnectWebSocket(p)
    \/ disconnectWrite(p)
    \/ disconnectUnlock(p)
    \/ disconnectClose(p)

SendStep(p) ==
    \/ CallSend(p)
    \/ sendLock(p)
    \/ sendWebSocket(p)
    \/ sendWrite(p)
    \/ sendReturn(p)
    \/ DisconnectStep(p)

RecvStep(p) ==
    \/ CallRecv(p)
    \/ recvWebSocket(p)
    \/ recvRead(p)

NextCalls ==
    \/ PeerConnect
    \/ \E p \in Procs : SendStep(p)
    \/ \E p \in Procs : RecvStep(p)

SpecCalls == InitFrames /\ [][NextCalls]_vars

\* The session's readers: goroutines that call recv, controlChannel and
\* disconnect while the peer connects.
CallDisconnect(p) == CallOf(p, {"disconnect"})

NextReaders ==
    \/ PeerConnect
    \/ \E p \in Procs : CallDisconnect(p) \/ DisconnectStep(p)
    \/ \E p \in Procs : ReadStep(p)

SpecReaders == InitFrames /\ [][NextReaders]_vars

\* A session at any point of its life, as far as Connect can tell: Connect
\* reads and writes nothing but conns, and every combination of entry states
\* arises under Spec (Connect establishes a pending entry, each turn of
\* disconnect's loop closes one entry).
ConnectInit ==
    /\ role \in {"source", "sink"}
    /\ conns \in [Names -> [secret : Secrets, state : ConnStates]]
    /\ GoroutinesInit

InitConnect == ConnectInit /\ PublishOff /\ NegotiationOff

NextConnect == Connect

\* Connection requests with any presented secret, against any connection set.
SpecConnect == InitConnect /\ [][NextConnect]_vars

\* --------------------------------------------------------------- Metadata

\* The orders in which a range over a map with the keys of `keys` may visit
\* them.
OrdersOf(keys) ==
    {o \in [1..Cardinality(keys) -> keys] : {o[i] : i \in DOMAIN o} = keys}

\* Metadata leaving the control connection's secret out.
RECURSIVE SourceMetadataNoControl(_, _, _)
SourceMetadataNoControl(c, order, secrets) ==
    IF order = <<>>
    THEN secrets
    ELSE LET connName == Head(order)
         IN  SourceMetadataNoControl(c, Tail(order),
                 IF connName = SecretNameControl
                 THEN secrets
                 ELSE (connName :> Secret(c, connName)) @@ secrets)

\* migrationSourceWs.Metadata: `secrets[connName] = conn.Secret()` for every
\* entry of s.conns; `secrets` is the map built so far, `order` the entries
\* still to visit.
RECURSIVE SourceMetadata(_, _, _)
SourceMetadata(c, order, secrets) ==
    IF order = <<>>
    THEN secrets
    ELSE LET connName == Head(order)
         IN  SourceMetadata(c, Tail(order),
                            (connName :> Secret(c, connName)) @@ secrets)

\* migrationSink.Metadata: the same loop.
RECURSIVE SinkMetadata(_, _, _)
SinkMetadata(c, order, secrets) ==
    IF order = <<>>
    THEN secrets
    ELSE LET connName == Head(order)
         IN  SinkMetadata(c, Tail(order),
                          (connName :> Secret(c, connName)) @@ secrets)

\* The operation asks the session for its metadata.
Metadata ==
    /\ \E order \in OrdersOf(DOMAIN conns) :
          meta' = [kind |-> "metadata",
                   secrets |-> IF role = "source"
                               THEN SourceMetadata(conns, order, <<>>)
                               ELSE SinkMetadata(conns, order, <<>>)]
    /\ UNCHANGED <<role, conns, controlLock, pc, call, todo, ret, resp, pub,
                   io, ch, neg>>

\* The sessions Metadata may be asked of: a source or a sink whose connection
\* set holds the control connection, with or without a content stream, at any
\* point of the entries' lives.
MetadataInit ==
    /\ role \in {"source", "sink"}
    /\ \E keys \in SUBSET Names :
          /\ SecretNameControl \in keys
          /\ conns \in [keys -> [secret : Secrets, state : ConnStates]]
    /\ GoroutinesInit

InitMetadata == MetadataInit /\ PublishOff /\ NegotiationOff

NextMetadata == Metadata

SpecMetadata == InitMetadata /\ [][NextMetadata]_vars

\* The whole session: every operation, by any goroutine, in any order, with
\* connection requests presenting any secret.
NextSession ==
    \/ Connect
    \/ Metadata
    \/ \E p \in Procs : Step(p)
    \/ \E p \in Procs : ReadStep(p)

SpecSession == Init /\ [][NextSession]_vars

\* ------------------------------------------------------- type negotiation

\* The migration types a driver may name, and the ordered lists
\* Driver.MigrationTypes may return, most preferred first.
Types == {"A", "B", "C"}

Offers == UNION {[1..k -> Types] : k \in 0..MaxTypes}

ErrNoCommonType == "no common transfer type"

\* The negotiation with the sink's order deciding.
MatchTypesSinkFirst(source, sink) ==
    LET common == {j \in DOMAIN sink :
                      \E i \in DOMAIN source : source[i] = sink[j]}
    IN  IF common = {}
        THEN [err |-> ErrNoCommonType, type |-> "none"]
        ELSE [err |-> "nil", type |-> sink[Min(common)]]

\* The negotiation: the two ordered lists are intersected and the source's
\* order decides; without a common type the migration is rejected.
MatchTypes(source, sink) ==
    LET common == {i \in DOMAIN source :
                      \E j \in DOMAIN sink : sink[j] = source[i]}
    IN  IF common = {}
        THEN [err |-> ErrNoCommonType, type |-> "none"]
        ELSE [err |-> "nil", type |-> source[Min(common)]]

notNeg == <<role, conns, controlLock, pc, call, todo, ret, resp, pub,
            io, ch, meta>>

\* The two sides have made their offers.
NegotiateInit ==
    \E source \in Offers, sink \in Offers :
        neg = [kind |-> "offered", source |-> source, sink |-> sink,
               err |-> "none", type |-> "none", transfer |-> FALSE]

\* The session negotiates the type.
Negotiate ==
    /\ neg.kind = "offered"
    /\ LET r == MatchTypes(neg.source, neg.sink)
       IN  neg' = [neg EXCEPT !.kind = IF r.err = "nil" THEN "negotiated"
                                       ELSE "failed",
                              !.err = r.err, !.type = r.type]
    /\ UNCHANGED notNeg

\* The transfer workers start, once a type is negotiated.
Transfer ==
    /\ neg.kind = "negotiated"
    /\ neg' = [neg EXCEPT !.kind = "transferring", !.transfer = TRUE]
    /\ UNCHANGED notNeg

InitNegotiate == SessionOff /\ PublishOff /\ NegotiateInit

NextNegotiate == Negotiate \/ Transfer

\* One negotiation, for every pair of offers.
SpecNegotiate == InitNegotiate /\ [][NextNegotiate]_vars

\* ------------------------------------------------------------------ claims

Matching(c, secret) == {n \in Names : c[n].secret = secret}

\* A step of Connect: every step of a goroutine moves its pc or its todo, and
\* Connect moves neither.
ConnectStep == pc' = pc /\ todo' = todo /\ resp' # NoResp

\* C1: Connect with a non-empty presented secret hands the request to
\* AcceptIncoming of an entry if and only if the presented secret is exactly
\* the secret of some entry, and then only to an entry with exactly that
\* secret; for any other non-empty string it returns 403 Forbidden (never
\* 404), calls AcceptIncoming on no entry and leaves every entry as it was.
\* This holds for the source's and for the sink's Connect.
C1_SecretExactness ==
    [][(ConnectStep /\ resp'.secret # <<>>) =>
          LET s == resp'.secret
              m == Matching(conns, s)
          IN  /\ (resp'.accepted # {}) <=> (m # {})
              /\ resp'.accepted \subseteq m
              /\ \A n \in Names :
                    conns'[n] # conns[n] =>
                        n \in m /\ conns'[n].state = "established"
              /\ (resp'.err = "nil") => (m # {})
              /\ (m = {}) =>
                    /\ resp'.err = "StatusError"
                    /\ resp'.code = StatusForbidden
                    /\ resp'.code # StatusNotFound
                    /\ resp'.accepted = {}
                    /\ conns' = conns
              /\ (m # {}) => resp'.err # "StatusError"
      ]_vars

\* A request was accepted on the entry whose secret it presented, while the
\* presented secret is a proper prefix (or suffix) of the other entry's
\* secret, which is still pending.
C1_Witness ==
    /\ resp # NoResp
    /\ resp.err = "nil"
    /\ \E n \in Names, o \in Names :
          /\ resp.accepted = {n}
          /\ conns[n].state = "established"
          /\ conns[n].secret = resp.secret
          /\ o # n
          /\ conns[o].secret # resp.secret
          /\ IsPrefix(resp.secret, conns[o].secret)
          /\ conns[o].state = "pending"

\* C2: Connect with no secret presented returns 400 Bad Request, calls
\* AcceptIncoming on no entry and changes no entry, also when some entry's own
\* secret is the empty string; for the source and for the sink.
C2_MissingSecret ==
    [][(ConnectStep /\ resp'.secret = <<>>) =>
          /\ resp'.err = "StatusError"
          /\ resp'.code = StatusBadRequest
          /\ resp'.accepted = {}
          /\ conns' = conns
      ]_vars

\* A request without a secret was answered 400 while a pending entry's secret
\* is the empty string.
C2_Witness ==
    /\ resp # NoResp
    /\ resp.secret = <<>>
    /\ resp.code = StatusBadRequest
    /\ \E n \in Names : conns[n].secret = <<>> /\ conns[n].state = "pending"

\* The goroutines that are writing to the control stream: a write has started
\* and has not ended (a message frame in send, the terminal status in
\* sendControl, the close frame in disconnect).
Writers == {p \in Procs : pc[p] \in {"send_write", "sc_write", "dc_write"}}

AllClosed(c) == \A n \in Names : c[n].state = "closed"

\* C3: under any interleaving of send, sendControl and disconnect at most one
\* goroutine is writing to the control stream, and whoever is writing holds
\* controlLock.
C3_SingleWriter ==
    /\ Cardinality(Writers) <= 1
    /\ \A p \in Writers : controlLock = p

\* A send is writing its message while a sendControl and, with a third
\* goroutine, a disconnect wait for the lock.
C3_Witness ==
    \E p \in Procs, q \in Procs :
        /\ p # q
        /\ pc[p] = "send_write"
        /\ pc[q] \in {"sc_lock", "dc_lock"}

\* C4 as claimed: after sendControl(err) returns, for err nil as for err not
\* nil, every connection of the set has been closed.
C4_Original ==
    \A p \in Procs :
        (pc[p] = "returned" /\ call[p].op = "sendControl") => AllClosed(conns)

\* C4 amended: sendControl(err) with err not nil returns out of disconnect's
\* loop with every connection closed, whether or not the status was written;
\* sendControl(nil) returns right after releasing the lock and closes nothing.
C4_FailureStatusDisconnects ==
    [][\A p \in Procs :
          (call[p].op = "sendControl" /\ pc[p] # "returned" /\ pc'[p] = "returned") =>
              IF call[p].err
              THEN pc[p] = "dc_close" /\ AllClosed(conns')
              ELSE pc[p] = "sc_unlock" /\ conns' = conns
      ]_vars

\* sendControl(err) with err not nil has returned and every connection is
\* closed.
C4_Witness ==
    \E p \in Procs :
        /\ pc[p] = "returned"
        /\ call[p].op = "sendControl"
        /\ call[p].err
        /\ AllClosed(conns)

\* C8: disconnect returns with every entry closed, whatever the entries'
\* states were (also when all were closed already: a second call in sequence),
\* it returns nothing, and it never blocks: past the lock its next step is
\* always possible, and at the lock it waits only for a goroutine that can
\* itself go on.
C8_TeardownTotal ==
    \A p \in Procs :
        /\ (pc[p] = "returned" /\ call[p].op = "disconnect") =>
               AllClosed(conns) /\ ret[p] = NoRet
        /\ (call[p].op = "disconnect"
                /\ pc[p] \in {"dc_ws", "dc_write", "dc_unlock", "dc_close"}) =>
               ENABLED Step(p)
        /\ (call[p].op = "disconnect" /\ pc[p] = "dc_lock") =>
               \/ controlLock = 0
               \/ controlLock # p /\ ENABLED Step(controlLock)

\* A disconnect called right after a completed disconnect has returned, and
\* every entry is closed.
C8_Witness ==
    \E p \in Procs :
        /\ pc[p] = "returned"
        /\ call[p].op = "disconnect"
        /\ call[p].again
        /\ AllClosed(conns)

\* ------------------------------------------------------- claims on publish

Calls == DOMAIN pub.log

Made(op, out) == {i \in Calls : pub.log[i].op = op /\ pub.log[i].out = out}

Issued(op) == {i \in Calls : pub.log[i].op = op}

Failed == {i \in Calls : pub.log[i].out # "ok"}

\* C5: once the instance was stopped successfully, Run does not return
\* without having issued a start request after the stop: until then the
\* restart is pending as a deferred call, whatever fails later.
C5_RestartInvariant ==
    \A i \in Made("stop", "ok") :
        /\ pub.deferStart \/ \E j \in Issued("start") : j > i
        /\ pub.pc = "done" => \E j \in Issued("start") : j > i

\* Run returned an error after a successful stop, and the start request was
\* issued.
C5_Witness ==
    /\ pub.pc = "done"
    /\ Made("stop", "ok") # {}
    /\ pub.result \notin {"nil", "none"}
    /\ Issued("start") # {}

\* C6 as claimed: on every exit after the ephemeral flag was cleared, the
\* flag is true again in the final state, and it was restored before any
\* start request.
C6_EphemeralRoundTrip ==
    (pub.pc = "done" /\ Made("UpdateInstance ephemeral=false", "ok") # {}) =>
        /\ pub.ephemeral
        /\ \A j \in Issued("start") :
              \E k \in Made("UpdateInstance ephemeral=true", "ok") : k < j

\* C7: when the instance is running and --force was not given, Run returns
\* the error that asks for --force, and the only call it made is the
\* GetInstance that told it so: no update, no stop, no start, no image
\* creation, and the instance and the images are as they were.
C7_RunningWithoutForce ==
    (pub.wasRunning /\ ~pub.flagForce) =>
        /\ pub.pc \in {"deferred", "done"}
        /\ pub.result = ErrRunning
        /\ pub.log = <<[op |-> "GetInstance", out |-> "ok"]>>
        /\ ~pub.deferStart /\ ~pub.deferDelete
        /\ pub.running /\ pub.ephemeral = pub.wasEphemeral
        /\ ~pub.srcCreated /\ ~pub.srcImage /\ ~pub.dstImage

\* Run has returned for a running instance without --force.
C7_Witness ==
    /\ pub.pc = "done"
    /\ pub.wasRunning
    /\ ~pub.flagForce
    /\ pub.result = ErrRunning

\* C9 as claimed: on the push-to-remote path, every exit after the image was
\* created on the source has issued its deletion.
C9_Original ==
    (pub.pc = "done" /\ pub.remote /\ pub.srcCreated) =>
        Issued("DeleteImage") # {}

\* C9 amended: on the push-to-remote path, every exit after the image's
\* fingerprint was read has issued a DeleteImage for it, after the step that
\* failed or succeeded last; the one exit after the image's creation that
\* issues none is "Bad fingerprint".
C9_DeleteAfterFingerprint ==
    (pub.pc = "done" /\ pub.remote) =>
        /\ \A i \in Made("fingerprint", "ok") :
              \E j \in Issued("DeleteImage") :
                  /\ j > i
                  /\ \A k \in Calls : k > j => pub.log[k].op = "start"
        /\ (pub.srcCreated /\ Issued("DeleteImage") = {}) =>
               pub.result = "Bad fingerprint"

\* A remote publish failed at the copy and the image on the source was
\* deleted.
C9_Witness ==
    /\ pub.pc = "done"
    /\ pub.remote
    /\ pub.result = "CopyImage"
    /\ Made("DeleteImage", "ok") # {}
    /\ ~pub.srcImage

RestorationOps ==
    {"start", "restore GetInstance", "UpdateInstance ephemeral=true"}

RestoreOps == {"restore GetInstance", "UpdateInstance ephemeral=true"}

\* A restoration step failed and nothing else did: the arguments are good, no
\* alias is in the way, and every failed call is a restoration step.
OnlyRestorationFailed ==
    /\ \E i \in Failed : pub.log[i].op \in RestorationOps
    /\ ~pub.badArg
    /\ ~pub.badExpire
    /\ ~(pub.aliasExists /\ ~pub.flagReuse)
    /\ \A i \in Failed : pub.log[i].op \in RestorationOps

\* C10 as claimed: when only restoration steps failed (the restart, or the
\* restoring of the ephemeral flag), Run reports success.
C10_Original ==
    (pub.pc = "done" /\ OnlyRestorationFailed) => pub.result = "nil"

\* C10 amended: a failed restart never changes Run's result: when nothing but
\* the restart failed, Run reports success. A failed step of restoring the
\* ephemeral flag does: Run returns that step's error, creates no image, and
\* still issues the restart.
C10_RestartFailureIgnored ==
    (pub.pc = "done" /\ OnlyRestorationFailed) =>
        IF \E i \in Failed : pub.log[i].op \in RestoreOps
        THEN /\ pub.result \in {"restore GetInstance", "restore UpdateInstance"}
             /\ Issued("CreateImage") = {}
             /\ Issued("start") # {}
        ELSE pub.result = "nil"

\* The restart failed, nothing else did, and Run reported success.
C10_Witness ==
    /\ pub.pc = "done"
    /\ OnlyRestorationFailed
    /\ \E i \in Failed : pub.log[i].op = "start"
    /\ pub.result = "nil"

\* ------------------------------------------------- claims on the readers

\* The goroutines inside recv: the synchronous caller's, or the background
\* reader's.
Receiving == {p \in Procs : pc[p] \in {"recv_ws", "recv_read"}}

\* The response a background reader owes for what its recv returned.
Owed(p) ==
    IF io[p] = <<Frame(SecretNameControl, "read", TRUE)>>
    THEN [decoded |-> TRUE, err |-> "nil"]
    ELSE [decoded |-> FALSE, err |-> ret[p]]

\* C11: every controlChannel starts one background reader, which calls recv
\* once and sends one ControlResponse on the channel: none before recv has
\* returned, exactly one by the time the reader ends, never two; the response
\* holds the decoded message and no error when recv succeeded, and recv's
\* error otherwise. The reader is never stuck before its send.
C11_OneResponse ==
    \A p \in DOMAIN ch :
        ch[p].made =>
            /\ ch[p].recvs <= 1
            /\ Len(ch[p].sent) <= 1
            /\ (call[p].op = "controlChannel" /\ pc[p] \in ReaderPcs) =>
                   /\ ch[p].sent = <<>>
                   /\ ch[p].recvs = IF pc[p] = "cc_start" THEN 0 ELSE 1
                   /\ ENABLED ReadStep(p)
            /\ (call[p].op = "controlChannel" /\ pc[p] = "returned") =>
                   /\ ch[p].recvs = 1
                   /\ ch[p].sent = <<Owed(p)>>
                   /\ Owed(p).err # "nil" => ~Owed(p).decoded
            /\ call[p].op # "controlChannel" =>
                   ch[p].recvs = 1 /\ Len(ch[p].sent) = 1

\* A background reader has ended after a failed read, and its one response
\* carries the error.
C11_Witness ==
    \E p \in DOMAIN ch :
        /\ call[p].op = "controlChannel"
        /\ pc[p] = "returned"
        /\ io[p] = <<Frame(SecretNameControl, "read", FALSE)>>
        /\ ch[p].sent = <<[decoded |-> FALSE, err |-> "ProtoRecv failed"]>>

Occurs(t, list) == \E j \in DOMAIN list : list[j] = t

\* C13: the negotiated type is the first entry of the source's list that
\* also occurs in the sink's list, whatever the sink's order ([A,B,C] against
\* [C,B] gives B); with no common entry the negotiation fails with the
\* no-common-transfer-type error, and no transfer starts.
C13_SourcePreferred ==
    /\ neg.kind \in {"negotiated", "transferring"} =>
          /\ neg.err = "nil"
          /\ \E i \in DOMAIN neg.source :
                /\ neg.source[i] = neg.type
                /\ Occurs(neg.type, neg.sink)
                /\ \A k \in 1..(i - 1) : ~Occurs(neg.source[k], neg.sink)
          /\ (neg.source = <<"A", "B", "C">> /\ neg.sink = <<"C", "B">>) =>
                neg.type = "B"
    /\ neg.kind = "failed" =>
          /\ neg.err = ErrNoCommonType
          /\ \A i \in DOMAIN neg.source : ~Occurs(neg.source[i], neg.sink)
          /\ ~neg.transfer
    /\ (neg.kind # "offered"
            /\ \A i \in DOMAIN neg.source : ~Occurs(neg.source[i], neg.sink)) =>
          neg.kind = "failed"
    /\ neg.transfer => neg.kind = "transferring"

\* [A,B,C] against [C,B] was negotiated to B and the transfer has started.
C13_Witness ==
    /\ neg.kind = "transferring"
    /\ neg.source = <<"A", "B", "C">>
    /\ neg.sink = <<"C", "B">>
    /\ neg.type = "B"

\* ------------------------------------------------------ claims on Metadata

\* C14: what Metadata returns has the names of the session's connection set
\* as its keys, no more and no fewer, and each connection's secret as the
\* value of its name; the call changes nothing of the session. For the source
\* and for the sink.
C14_MetadataExact ==
    [][meta' # meta =>
          /\ meta'.kind = "metadata"
          /\ DOMAIN meta'.secrets = DOMAIN conns
          /\ \A n \in DOMAIN conns : meta'.secrets[n] = Secret(conns, n)
          /\ conns' = conns
          /\ role' = role
          /\ controlLock' = controlLock
          /\ <<pc, call, todo, ret, resp, io, ch>>' =
                 <<pc, call, todo, ret, resp, io, ch>>
      ]_vars

\* Metadata of a sink with two entries of different secrets, one of them
\* established, returned both secrets under their names.
C14_Witness ==
    /\ meta.kind = "metadata"
    /\ role = "sink"
    /\ DOMAIN conns = Names
    /\ DOMAIN meta.secrets = Names
    /\ \E n \in Names : conns[n].state = "established"
    /\ meta.secrets[SecretNameControl] # meta.secrets["fs"]
    /\ meta.secrets[SecretNameControl] = conns[SecretNameControl].secret

\* ------------------------------------------- further claims on publish

\* C15: no stop request is issued while the instance's ephemeral flag is set:
\* for an instance that was ephemeral, the update clearing the flag has
\* succeeded before the stop request; when that update fails (the request or
\* the wait for it), no stop request is issued; and the instance is never
\* destroyed by the stop.
C15_ClearBeforeStop ==
    /\ \A i \in Issued("stop") :
          pub.wasEphemeral =>
              \E k \in Made("UpdateInstance ephemeral=false", "ok") : k < i
    /\ (\E k \in Failed : pub.log[k].op = "UpdateInstance ephemeral=false") =>
          Issued("stop") = {}
    /\ pub.pc = "Stop" => ~pub.ephemeral
    /\ ~pub.destroyed

\* A running, ephemeral instance was published with --force: it was stopped
\* after its flag was cleared, and it is still there.
C15_Witness ==
    /\ pub.pc = "done"
    /\ pub.wasRunning /\ pub.wasEphemeral /\ pub.flagForce
    /\ Made("UpdateInstance ephemeral=false", "ok") # {}
    /\ Made("stop", "ok") # {}
    /\ ~pub.destroyed

\* The calls that read or change the instance's lifecycle state.
LifecycleOps ==
    {"GetInstance", "UpdateInstance ephemeral=false", "stop",
     "restore GetInstance", "UpdateInstance ephemeral=true", "start"}

\* C19: for a snapshot Run makes no call that reads or changes the instance's
\* lifecycle state, on any path and with or without --force: no GetInstance,
\* no update of the ephemeral flag, no stop, no start, and no restart is
\* deferred.
C19_SnapshotUntouched ==
    pub.isSnapshot =>
        /\ \A i \in Calls : pub.log[i].op \notin LifecycleOps
        /\ ~pub.deferStart
        /\ ~pub.wasRunning /\ ~pub.wasEphemeral
        /\ pub.pc \notin {"GetInstance", "ClearEphemeral", "Stop",
                          "RestoreGetInstance", "RestoreEphemeral"}

\* The snapshot of a running, ephemeral instance was published with --force,
\* and the instance is running and ephemeral as before.
C19_Witness ==
    /\ pub.pc = "done"
    /\ pub.isSnapshot /\ pub.flagForce
    /\ pub.result = "nil"
    /\ pub.running /\ pub.ephemeral

\* --------------------------------------------------- claims on the frames

\* The close frames goroutine p's current call has written or tried to write.
CloseFrames(p) == {i \in DOMAIN io[p] : io[p][i].kind = "close"}

\* C16: a disconnect, called directly or by sendControl, writes nothing but
\* one close frame, to the control stream, and none unless it found the
\* control connection established; nothing is ever written to another stream;
\* and it returns with every connection closed, the control connection's
\* included, when it wrote the frame, when the write failed and when it wrote
\* none.
C16_CloseFrameOnlyOnControl ==
    \A p \in DOMAIN io :
        /\ \A i \in DOMAIN io[p] : io[p][i].stream = SecretNameControl
        /\ Cardinality(CloseFrames(p)) <= 1
        /\ CloseFrames(p) # {} =>
               /\ call[p].op \in {"disconnect", "sendControl"}
               /\ conns[SecretNameControl].state # "pending"
        /\ pc[p] = "dc_write" =>
               /\ conns[SecretNameControl].state # "pending"
               /\ CloseFrames(p) = {}
        /\ call[p].op = "disconnect" =>
               \A i \in DOMAIN io[p] : io[p][i].kind = "close"
        /\ (pc[p] = "returned" /\ call[p].op = "disconnect") =>
               /\ AllClosed(conns)
               /\ \/ io[p] = <<>>
                  \/ \E ok \in BOOLEAN :
                        io[p] = <<Frame(SecretNameControl, "close", ok)>>

\* A disconnect whose close frame could not be written has returned, and
\* every connection is closed.
C16_Witness ==
    \E p \in DOMAIN io :
        /\ pc[p] = "returned"
        /\ call[p].op = "disconnect"
        /\ io[p] = <<Frame(SecretNameControl, "close", FALSE)>>
        /\ AllClosed(conns)

\* What a returned send or recv has written or read, by what it returned.
FramesFor(op, r) ==
    CASE r = ErrNotInitialized -> <<>>
      [] r = "nil" ->
           <<Frame(SecretNameControl, IF op = "send" THEN "message" ELSE "read",
                   TRUE)>>
      [] OTHER ->
           <<Frame(SecretNameControl, IF op = "send" THEN "message" ELSE "read",
                   FALSE)>>

\* C17 as claimed: a send or a recv that finds the control connection not
\* established returns "Control connection not initialized" having written
\* and read nothing, and a send whose write failed returns that same error.
C17_Original ==
    \A p \in DOMAIN io :
        (call[p].op = "send" /\ pc[p] = "returned" /\ ret[p] # "nil") =>
            ret[p] = ErrNotInitialized

\* C17 amended: a send or a recv that finds the control connection not
\* established returns "Control connection not initialized" and has written
\* and read nothing; a send whose write fails returns the write's own error;
\* and send holds controlLock from its Lock to its return and never after it.
C17_NotInitialized ==
    \A p \in Procs :
        /\ (call[p].op \in {"send", "recv"} /\ pc[p] = "returned") =>
               /\ ret[p] \in {"nil", ErrNotInitialized,
                              IF call[p].op = "send" THEN "ProtoSend failed"
                              ELSE "ProtoRecv failed"}
               /\ p \in DOMAIN io => io[p] = FramesFor(call[p].op, ret[p])
               /\ conns[SecretNameControl].state = "pending" =>
                      ret[p] = ErrNotInitialized
        /\ (call[p].op \in {"send", "recv"} /\ ret[p] = ErrNotInitialized) =>
               /\ p \in DOMAIN io => io[p] = <<>>
               /\ pc[p] \in {"send_ret", "returned"}
        /\ call[p].op = "send" =>
               (controlLock = p <=> pc[p] \in {"send_ws", "send_write", "send_ret"})
        /\ call[p].op = "recv" => controlLock # p

\* A recv has returned "Control connection not initialized", a send whose
\* write failed has returned the write's error, and the lock is free.
C17_Witness ==
    \E p \in DOMAIN io, q \in Procs :
        /\ call[p].op = "send" /\ pc[p] = "returned"
        /\ ret[p] = "ProtoSend failed"
        /\ io[p] = <<Frame(SecretNameControl, "message", FALSE)>>
        /\ call[q].op = "recv" /\ pc[q] = "returned"
        /\ ret[q] = ErrNotInitialized
        /\ controlLock = 0

\* ------------------------------------------------ further claims on Connect

\* C18: one Connect calls AcceptIncoming on at most one entry. When some
\* entry's secret is the presented one, it calls it on exactly one such entry
\* and returns what that call gave: nil, with that entry established, or the
\* wrapped accept error (never a status error such as 403), with nothing
\* changed and no other entry tried, even one that has the same secret and
\* would have accepted. Every other entry is left as it was.
C18_SingleAccept ==
    [][(ConnectStep /\ resp'.secret # <<>>) =>
          LET m == Matching(conns, resp'.secret)
          IN  /\ Cardinality(resp'.accepted) <= 1
              /\ m # {} =>
                    \E n \in m :
                        /\ resp'.accepted = {n}
                        /\ \A o \in Names \ {n} : conns'[o] = conns[o]
                        /\ resp'.err \in {"nil", "wrapped"}
                        /\ resp'.code # StatusForbidden
                        /\ resp'.err = "nil" =>
                               /\ conns[n].state = "pending"
                               /\ conns'[n] = [conns[n] EXCEPT
                                                  !.state = "established"]
                        /\ resp'.err = "wrapped" => conns' = conns
      ]_vars

\* Connect returned the wrapped error of the one entry it tried, while the
\* other entry has the same secret and is still pending.
C18_Witness ==
    /\ resp # NoResp
    /\ resp.err = "wrapped"
    /\ \E n \in Names, o \in Names :
          /\ o # n
          /\ resp.accepted = {n}
          /\ conns[n].state # "pending"
          /\ conns[o].secret = resp.secret
          /\ conns[o].state = "pending"

\* ------------------------------------------- claims on the connection set

\* The names of a connection set, each with its entry's secret.
Entries(c) == [n \in DOMAIN c |-> Secret(c, n)]

\* C21: no operation of the session (send, recv, sendControl, disconnect,
\* controlChannel, Metadata, Connect) adds, removes or renames an entry of
\* conns or changes an entry's secret: in every reachable state the names and
\* the secret of each name are those the session was created with.
C21_ConnectionSetFixed ==
    Entries(conns) = [n \in Names |-> IssuedSecret(n)]

\* Every operation has been used: a disconnect has returned with every entry
\* closed, a controlChannel reader has ended, Connect and Metadata have
\* answered; the entries still carry their names and secrets.
C21_Witness ==
    /\ \E p \in Procs, q \in Procs :
          /\ call[p].op = "disconnect" /\ pc[p] = "returned"
          /\ call[q].op = "controlChannel" /\ pc[q] = "returned"
    /\ AllClosed(conns)
    /\ resp # NoResp /\ resp.err = "nil"
    /\ meta # NoMeta
    /\ Entries(conns) = [n \in Names |-> IssuedSecret(n)]

\* What Connect of the session's role does with connection set c, presented
\* secret and iteration order.
ConnectOf(c, incomingSecret, order, upgraded) ==
    IF role = "source"
    THEN SourceConnect(c, incomingSecret, order, upgraded)
    ELSE SinkConnect(c, incomingSecret, order, upgraded)

DistinctSecrets(c) ==
    \A n \in Names, m \in Names : n # m => Secret(c, n) # Secret(c, m)

\* C22: from one session state and with one presented secret, Connect run
\* with any two iteration orders of the map selects the same entry or rejects
\* both times when the entries' secrets are pairwise distinct, and then the
\* whole outcome (answer and connection set) is the same for the same fate
\* of the upgrade; when several entries share the presented secret, which of
\* them is selected is decided by the iteration order: each of them is
\* selected under some order.
C22_OrderIndependent ==
    /\ DistinctSecrets(conns) =>
          \A s \in Secrets, o1 \in Orders, o2 \in Orders :
              /\ \A u1 \in BOOLEAN, u2 \in BOOLEAN :
                    ConnectOf(conns, s, o1, u1).resp.accepted
                        = ConnectOf(conns, s, o2, u2).resp.accepted
              /\ \A u \in BOOLEAN :
                    ConnectOf(conns, s, o1, u) = ConnectOf(conns, s, o2, u)
    /\ \A s \in Secrets \ {<<>>} :
          Cardinality(Matching(conns, s)) > 1 =>
              \A n \in Matching(conns, s), u \in BOOLEAN :
                  \E o \in Orders :
                      ConnectOf(conns, s, o, u).resp.accepted = {n}

\* Connect has accepted a request on an entry of a set with distinct secrets,
\* and the same request would select that entry again under every order.
C22_Witness ==
    /\ DistinctSecrets(conns)
    /\ resp # NoResp
    /\ resp.err = "nil"
    /\ \E n \in Names :
          /\ resp.accepted = {n}
          /\ conns[n].state = "established"
          /\ \A o \in Orders, u \in BOOLEAN :
                ConnectOf(conns, resp.secret, o, u).resp.accepted = {n}

\* --------------------------------------------------- claims on the lock

InCall(p) == pc[p] \notin {"idle", "returned"}

\* The positions at which a goroutine holds controlLock.
LockedPcs ==
    {"send_ws", "send_write", "send_ret", "dc_ws", "dc_write", "dc_unlock",
     "sc_ws", "sc_write", "sc_unlock"}

\* C20: a goroutine holds controlLock only between a Lock and the Unlock of
\* the same call: not after send, sendControl or disconnect has returned, and
\* not when sendControl calls disconnect; so the lock is free whenever no
\* call is in progress. With writes that end and a mutex that serves its
\* waiters, every call of send, sendControl and disconnect returns, under
\* any interleaving.
C20_NoDeadlock ==
    /\ [](\A p \in Procs : controlLock = p <=> pc[p] \in LockedPcs)
    /\ []((\A p \in Procs : ~InCall(p)) => controlLock = 0)
    /\ \A p \in Procs : InCall(p) ~> pc[p] = "returned"

\* sendControl(err) has released the lock and waits for it in disconnect,
\* while another goroutine holds it.
C20_Witness ==
    \E p \in Procs, q \in Procs :
        /\ p # q
        /\ call[p].op = "sendControl"
        /\ pc[p] = "dc_lock"
        /\ controlLock = q

====
